---- MODULE Spec2Model ----
(***************************************************************************)
(* Bukvarix MCP server: the request-building / response-normalization      *)
(* pipeline of the four tool handlers (searchKeywords, searchKeywordsBatch,*)
(* getDomainKeywords, compareDomains), the transport client makeApiRequest,*)
(* the error classifier handleApiError and the normalizer parseResponse.   *)
(*                                                                         *)
(* Texts are TLA+ strings (TLC treats them as sequences of characters:     *)
(* Len, \o, SubSeq).  A JavaScript value is a record [t, v] whose tag t is *)
(* the value's kind; a JavaScript object is the ordered list of its        *)
(* <<key, value>> properties.                                              *)
(***************************************************************************)
EXTENDS Integers, Sequences, FiniteSets, TLC

VARIABLES
    API_KEY,    \* module constant read from the environment at load time
    pc,         \* position of the invocation: "idle", "awaiting", "done"
    op,         \* the operation invoked
    args,       \* the arguments the caller passed to the tool
    input,      \* the validated parameter object the handler received
    requests,   \* the configs handed to axios, in order
    calls,      \* normalizer / formatter calls made by the handler, in order
    settled,    \* what the transport call settled with
    outcomes,   \* the outcomes the handler returned to the host, in order
    escaped     \* TRUE when an exception propagated past the handler

vars == <<API_KEY, pc, op, args, input, requests, calls, settled, outcomes, escaped>>

-----------------------------------------------------------------------------
(* Bounds of the model *)

\* longest queries / exclusions list of a batch search
MaxQueries == 2
MaxExclusions == 1
\* most domains of a comparison (the schema allows 2..MAX_DOMAINS_COMPARE)
MaxDomains == 3
\* the long response body has CHARACTER_LIMIT + LongExtra characters
LongExtra == 1

-----------------------------------------------------------------------------
(* Program constants *)

API_BASE_URL == "http://api.bukvarix.com"
CHARACTER_LIMIT == 25000
DEFAULT_NUM == 250
TIMEOUT == 30000
FORMATS == {"txt", "json", "csv", "tsv"}
REPORT_TYPES == {"report", "word_analysis"}
COMPARISON_TYPES == {"intersect", "domain1_uniq", "domain2_uniq"}
TruncationNotice == "\n\n[Response truncated. Use 'num' parameter to limit results.]"

-----------------------------------------------------------------------------
(* Strings *)

\* the character of s at position i (1-based); "" outside the string
Char(s, i) == IF 1 <= i /\ i <= Len(s) THEN SubSeq(s, i, i) ELSE ""

RECURSIVE Repeat(_, _)
Repeat(s, n) ==
    IF n = 0 THEN ""
    ELSE IF n % 2 = 0 THEN LET h == Repeat(s, n \div 2) IN h \o h
    ELSE s \o Repeat(s, n - 1)

\* String.prototype.substring(0, n)
Substring(s, n) == SubSeq(s, 1, IF n < Len(s) THEN n ELSE Len(s))

\* printable ASCII: codes 32 (space) to 95 (_), and 97 (a) to 126 (~)
AsciiLow == " !\"#$%&'()*+,-./0123456789:;<=>?@ABCDEFGHIJKLMNOPQRSTUVWXYZ[\\]^_"
AsciiHigh == "abcdefghijklmnopqrstuvwxyz{|}~"

\* the UTF-16 code unit of a character of the model's alphabet
CharCode(c) ==
    IF c = "\n" THEN 10
    ELSE IF c = "\r" THEN 13
    ELSE IF c = "\t" THEN 9
    ELSE IF \E i \in 1..Len(AsciiLow) : Char(AsciiLow, i) = c
         THEN 31 + (CHOOSE i \in 1..Len(AsciiLow) : Char(AsciiLow, i) = c)
    ELSE 96 + (CHOOSE i \in 1..Len(AsciiHigh) : Char(AsciiHigh, i) = c)

HexDigits == "0123456789ABCDEF"

\* %XX of a one-byte (ASCII) character
PercentHex(c) ==
    LET n == CharCode(c)
    IN "%" \o Char(HexDigits, (n \div 16) + 1) \o Char(HexDigits, (n % 16) + 1)

IsAlnum(c) ==
    LET n == CharCode(c)
    IN (48 <= n /\ n <= 57) \/ (65 <= n /\ n <= 90) \/ (97 <= n /\ n <= 122)

IsDigit(c) == c # "" /\ 48 <= CharCode(c) /\ CharCode(c) <= 57

\* String.prototype.trim / parseInt white space, within the model's alphabet
IsSpace(c) == c \in {" ", "\n", "\r", "\t"}

RECURSIVE Concat(_, _, _)
\* the concatenation of the texts parts[lo], ..., parts[hi]
Concat(parts, lo, hi) ==
    IF lo > hi THEN ""
    ELSE IF lo = hi THEN parts[lo]
    ELSE LET mid == (lo + hi) \div 2
         IN Concat(parts, lo, mid) \o Concat(parts, mid + 1, hi)

RECURSIVE NatToString(_)
NatToString(n) ==
    IF n < 10 THEN Char("0123456789", n + 1)
    ELSE NatToString(n \div 10) \o Char("0123456789", (n % 10) + 1)

\* Number.prototype.toString of an integer
IntToString(n) == IF n < 0 THEN "-" \o NatToString(-n) ELSE NatToString(n)

RECURSIVE Join(_, _)
\* Array.prototype.join of a list of strings
Join(list, sep) ==
    IF Len(list) = 0 THEN ""
    ELSE IF Len(list) = 1 THEN list[1]
    ELSE list[1] \o sep \o Join(Tail(list), sep)

\* String.prototype.split on a one-character separator
Split(s, sep) ==
    LET cuts == {i \in 1..Len(s) : Char(s, i) = sep}
        n == Cardinality(cuts)
        \* the position of the k-th separator; 0 before the first, Len+1 after the last
        cut(k) == IF k = 0 THEN 0
                  ELSE IF k = n + 1 THEN Len(s) + 1
                  ELSE CHOOSE i \in cuts : Cardinality({j \in cuts : j < i}) = k - 1
    IN [k \in 1..(n + 1) |-> SubSeq(s, cut(k - 1) + 1, cut(k) - 1)]

\* String.prototype.trim
Trim(s) ==
    LET keep == {i \in 1..Len(s) : ~IsSpace(Char(s, i))}
    IN IF keep = {} THEN ""
       ELSE SubSeq(s, CHOOSE i \in keep : \A j \in keep : i <= j,
                      CHOOSE i \in keep : (i + 1) \notin keep /\ \A j \in keep : j <= i)

\* line.trim() is a non-empty string
NonBlank(s) == \E i \in 1..Len(s) : ~IsSpace(Char(s, i))

StartsWith(s, i, lit) ==
    i >= 1 /\ i + Len(lit) - 1 <= Len(s) /\ SubSeq(s, i, i + Len(lit) - 1) = lit

-----------------------------------------------------------------------------
(* JavaScript values *)

JStr(s) == [t |-> "string", v |-> s]
JNum(n) == [t |-> "number", v |-> n]
JBool(b) == [t |-> "boolean", v |-> b]
JArr(list) == [t |-> "array", v |-> list]
JObj(props) == [t |-> "object", v |-> props]
JNull == [t |-> "null", v |-> 0]
JUndefined == [t |-> "undefined", v |-> 0]
\* the number NaN
JNaN == [t |-> "NaN", v |-> 0]

\* typeof x
TypeOf(x) ==
    CASE x.t = "string" -> "string"
      [] x.t \in {"number", "NaN"} -> "number"
      [] x.t = "boolean" -> "boolean"
      [] x.t = "undefined" -> "undefined"
      [] OTHER -> "object"

\* ToBoolean
Truthy(x) ==
    CASE x.t = "string" -> x.v # ""
      [] x.t = "number" -> x.v # 0
      [] x.t = "boolean" -> x.v
      [] x.t \in {"null", "undefined", "NaN"} -> FALSE
      [] OTHER -> TRUE

HasKey(props, k) == \E i \in 1..Len(props) : props[i][1] = k

\* obj[k] of an ordered property list (undefined when absent)
Lookup(props, k) ==
    IF HasKey(props, k)
    THEN props[CHOOSE i \in 1..Len(props) : props[i][1] = k][2]
    ELSE JUndefined

\* obj[k] = x : overwrite in place, or append a new property
SetProp(props, k, x) ==
    IF HasKey(props, k)
    THEN [i \in 1..Len(props) |-> IF props[i][1] = k THEN <<k, x>> ELSE props[i]]
    ELSE Append(props, <<k, x>>)

RECURSIVE Spread(_, _)
\* { ...a, ...b } : the properties of b set onto a, in b's order
Spread(a, b) ==
    IF Len(b) = 0 THEN a ELSE Spread(SetProp(a, b[1][1], b[1][2]), Tail(b))

RECURSIVE ToStr(_)
\* String(x), as a template literal or String() converts
ToStr(x) ==
    CASE x.t = "string" -> x.v
      [] x.t = "number" -> IntToString(x.v)
      [] x.t = "NaN" -> "NaN"
      [] x.t = "boolean" -> IF x.v THEN "true" ELSE "false"
      [] x.t = "null" -> "null"
      [] x.t = "undefined" -> "undefined"
      [] x.t = "array" ->
            Join([i \in 1..Len(x.v) |->
                    IF x.v[i].t \in {"null", "undefined"} THEN "" ELSE ToStr(x.v[i])], ",")
      [] OTHER -> "[object Object]"

-----------------------------------------------------------------------------
(* api-client: encodePercentEncoding *)

\* the characters encodeURIComponent leaves as they are
UriUnreserved(c) == IsAlnum(c) \/ c \in {"-", "_", ".", "!", "~", "*", "'", "(", ")"}

EncodeUriChar(c) == IF UriUnreserved(c) THEN c ELSE PercentHex(c)

\* encodeURIComponent(text), for ASCII text
encodePercentEncoding(text) ==
    Concat([i \in 1..Len(text) |-> EncodeUriChar(Char(text, i))], 1, Len(text))

-----------------------------------------------------------------------------
(* api-client: handleApiError *)

\* What a rejected axios call throws.  kind "axios": an AxiosError, with a
\* response (status, data) or with an error code; kind "error": another
\* Error; kind "value": a thrown value that is no Error.
HttpError(status, data) ==
    [kind |-> "axios", hasResponse |-> TRUE, status |-> status, data |-> data,
     code |-> "ERR_BAD_RESPONSE", message |-> "Request failed"]
NetworkError(code, message) ==
    [kind |-> "axios", hasResponse |-> FALSE, status |-> 0, data |-> JUndefined,
     code |-> code, message |-> message]
OtherError(message) ==
    [kind |-> "error", hasResponse |-> FALSE, status |-> 0, data |-> JUndefined,
     code |-> "", message |-> message]
ThrownValue(x) ==
    [kind |-> "value", hasResponse |-> FALSE, status |-> 0, data |-> x,
     code |-> "", message |-> ""]

\* a classifier without the 402 case: the status falls to the default
handleApiErrorNo402(error) ==
    IF error.kind = "axios" /\ error.hasResponse THEN
        LET status == error.status
            data == error.data
        IN CASE status = 400 ->
                  "Error: Invalid request. "
                      \o (IF TypeOf(data) = "string" THEN data.v ELSE "Check your parameters.")
             [] status = 401 ->
                  "Error: Authentication failed. Check your API key (BUKVARIX_API_KEY environment variable)."
             [] status = 429 ->
                  "Error: Rate limit exceeded. Please wait before making more requests."
             [] status = 500 ->
                  "Error: Internal server error. Please contact Bukvarix support."
             [] status = 503 ->
                  "Error: Server maintenance in progress. Please try again later."
             [] OTHER ->
                  "Error: API request failed with status " \o IntToString(status) \o ". "
                      \o (IF TypeOf(data) = "string" THEN data.v ELSE "")
    ELSE IF error.kind = "axios" /\ error.code = "ECONNABORTED" THEN
        "Error: Request timed out. Please try again."
    ELSE IF error.kind = "axios" /\ error.code \in {"ENOTFOUND", "ECONNREFUSED"} THEN
        "Error: Cannot connect to Bukvarix API. Check your internet connection."
    ELSE
        "Error: Unexpected error occurred: "
            \o (IF error.kind \in {"axios", "error"} THEN error.message ELSE ToStr(error.data))

handleApiError(error) ==
    IF error.kind = "axios" /\ error.hasResponse THEN
        LET status == error.status
            data == error.data
        IN CASE status = 400 ->
                  "Error: Invalid request. "
                      \o (IF TypeOf(data) = "string" THEN data.v ELSE "Check your parameters.")
             [] status = 401 ->
                  "Error: Authentication failed. Check your API key (BUKVARIX_API_KEY environment variable)."
             [] status = 402 ->
                  "Error: Limit exceeded. Free API limits: max 100 queries, 250 exclusions, 10 domains for comparison. Try reducing the 'num' parameter or use filters."
             [] status = 429 ->
                  "Error: Rate limit exceeded. Please wait before making more requests."
             [] status = 500 ->
                  "Error: Internal server error. Please contact Bukvarix support."
             [] status = 503 ->
                  "Error: Server maintenance in progress. Please try again later."
             [] OTHER ->
                  "Error: API request failed with status " \o IntToString(status) \o ". "
                      \o (IF TypeOf(data) = "string" THEN data.v ELSE "")
    ELSE IF error.kind = "axios" /\ error.code = "ECONNABORTED" THEN
        "Error: Request timed out. Please try again."
    ELSE IF error.kind = "axios" /\ error.code \in {"ENOTFOUND", "ECONNREFUSED"} THEN
        "Error: Cannot connect to Bukvarix API. Check your internet connection."
    ELSE
        "Error: Unexpected error occurred: "
            \o (IF error.kind \in {"axios", "error"} THEN error.message ELSE ToStr(error.data))

-----------------------------------------------------------------------------
(* api-client: makeApiRequest *)

\* what a function call ends with: a returned value, or a thrown one
Return(x) == [thrown |-> FALSE, value |-> x]
Throw(e) == [thrown |-> TRUE, value |-> e]
\* new Error(message), new TypeError(message)
NewError(message) == [isError |-> TRUE, message |-> message]

\* application/x-www-form-urlencoded byte serialisation (URLSearchParams)
FormEncodeChar(c) ==
    IF c = " " THEN "+"
    ELSE IF IsAlnum(c) \/ c \in {"*", "-", ".", "_"} THEN c
    ELSE PercentHex(c)

FormEncode(text) ==
    Concat([i \in 1..Len(text) |-> FormEncodeChar(Char(text, i))], 1, Len(text))

\* URLSearchParams.prototype.toString of the appended <<name, value>> pairs
FormToString(pairs) ==
    Join([i \in 1..Len(pairs) |->
            FormEncode(pairs[i][1]) \o "=" \o FormEncode(pairs[i][2])], "&")

\* the loop joining list values with a bare line feed
FormFieldsLf(data) ==
    [i \in 1..Len(data) |->
        <<data[i][1],
          IF data[i][2].t = "array"
          THEN Join([j \in 1..Len(data[i][2].v) |-> ToStr(data[i][2].v[j])], "\n")
          ELSE ToStr(data[i][2])>>]

\* the pairs the loop over Object.entries(data) appends after api_key
FormFields(data) ==
    [i \in 1..Len(data) |->
        <<data[i][1],
          IF data[i][2].t = "array"
          THEN Join([j \in 1..Len(data[i][2].v) |-> ToStr(data[i][2].v[j])], "\r\n")
          ELSE ToStr(data[i][2])>>]

\* the config makeApiRequest hands to axios; data and params are JUndefined
\* when the caller passes none, else the JObj of the fields
makeApiRequestConfig(endpoint, method, data, params) ==
    LET base == [method |-> method, url |-> API_BASE_URL \o endpoint,
                 timeout |-> TIMEOUT]
    IN IF method = "POST" /\ Truthy(data)
       THEN base @@ [headers |-> <<<<"Content-Type", "application/x-www-form-urlencoded">>>>,
                     data |-> JStr(FormToString(<<<<"api_key", API_KEY>>>> \o FormFields(data.v))),
                     params |-> JUndefined]
       ELSE base @@ [headers |-> <<>>,
                     data |-> JUndefined,
                     params |-> IF Truthy(params)
                                THEN JObj(SetProp(params.v, "api_key", JStr(API_KEY)))
                                ELSE JObj(<<<<"api_key", JStr(API_KEY)>>>>)]

\* what the transport call settles with
Fulfilled(data) == [ok |-> TRUE, data |-> data, error |-> OtherError("")]
Rejected(error) == [ok |-> FALSE, data |-> JUndefined, error |-> error]

\* makeApiRequest after the await: response.data, or the classified Error
makeApiRequestSettle(result) ==
    IF result.ok THEN Return(result.data)
    ELSE Throw(NewError(handleApiError(result.error)))

-----------------------------------------------------------------------------
(* JSON.parse and JSON.stringify, for the JSON texts of the model: integers, *)
(* strings with the escapes \" \\ \/ \n \r \t, null, true, false, arrays,   *)
(* objects                                                                  *)

ParseFail == [ok |-> FALSE, val |-> JNull, pos |-> 0]
ParseOk(x, next) == [ok |-> TRUE, val |-> x, pos |-> next]

\* the first position from i on that holds no white space
SkipSpace(s, i) ==
    IF \E j \in i..Len(s) : ~IsSpace(Char(s, j))
    THEN CHOOSE j \in i..Len(s) :
            ~IsSpace(Char(s, j)) /\ \A k \in i..(j - 1) : IsSpace(Char(s, k))
    ELSE Len(s) + 1

RECURSIVE DigitsEnd(_, _)
\* the first position from i on that holds no digit
DigitsEnd(s, i) == IF IsDigit(Char(s, i)) THEN DigitsEnd(s, i + 1) ELSE i

RECURSIVE StringToNat(_)
StringToNat(digits) ==
    IF Len(digits) = 0 THEN 0
    ELSE 10 * StringToNat(SubSeq(digits, 1, Len(digits) - 1))
            + (CharCode(Char(digits, Len(digits))) - 48)

ParseNumber(s, i) ==
    LET neg == Char(s, i) = "-"
        from == IF neg THEN i + 1 ELSE i
        to == DigitsEnd(s, from)
        digits == SubSeq(s, from, to - 1)
    IN IF to = from \/ (Len(digits) > 1 /\ Char(digits, 1) = "0")
          \/ Char(s, to) \in {".", "e", "E"}
       THEN ParseFail
       ELSE ParseOk(JNum(IF neg THEN -StringToNat(digits) ELSE StringToNat(digits)), to)

RECURSIVE ParseString(_, _, _)
\* the string whose opening quote precedes position i
ParseString(s, i, acc) ==
    LET c == Char(s, i)
        e == Char(s, i + 1)
    IN IF i > Len(s) \/ c \in {"\n", "\r", "\t"} THEN ParseFail
       ELSE IF c = "\"" THEN ParseOk(JStr(acc), i + 1)
       ELSE IF c = "\\" THEN
            CASE e \in {"\"", "\\", "/"} -> ParseString(s, i + 2, acc \o e)
              [] e = "n" -> ParseString(s, i + 2, acc \o "\n")
              [] e = "r" -> ParseString(s, i + 2, acc \o "\r")
              [] e = "t" -> ParseString(s, i + 2, acc \o "\t")
              [] OTHER -> ParseFail
       ELSE ParseString(s, i + 1, acc \o c)

RECURSIVE ParseValue(_, _)
RECURSIVE ParseElements(_, _, _)
RECURSIVE ParseMembers(_, _, _)

ParseValue(s, i) ==
    LET j == SkipSpace(s, i)
        c == Char(s, j)
    IN CASE c = "[" ->
              IF Char(s, SkipSpace(s, j + 1)) = "]"
              THEN ParseOk(JArr(<<>>), SkipSpace(s, j + 1) + 1)
              ELSE ParseElements(s, j + 1, <<>>)
         [] c = "{" ->
              IF Char(s, SkipSpace(s, j + 1)) = "}"
              THEN ParseOk(JObj(<<>>), SkipSpace(s, j + 1) + 1)
              ELSE ParseMembers(s, j + 1, <<>>)
         [] c = "\"" -> ParseString(s, j + 1, "")
         [] c = "-" \/ IsDigit(c) -> ParseNumber(s, j)
         [] StartsWith(s, j, "null") -> ParseOk(JNull, j + 4)
         [] StartsWith(s, j, "true") -> ParseOk(JBool(TRUE), j + 4)
         [] StartsWith(s, j, "false") -> ParseOk(JBool(FALSE), j + 5)
         [] OTHER -> ParseFail

ParseElements(s, i, acc) ==
    LET r == ParseValue(s, i)
        j == SkipSpace(s, r.pos)
    IN IF ~r.ok THEN ParseFail
       ELSE IF Char(s, j) = "," THEN ParseElements(s, j + 1, Append(acc, r.val))
       ELSE IF Char(s, j) = "]" THEN ParseOk(JArr(Append(acc, r.val)), j + 1)
       ELSE ParseFail

ParseMembers(s, i, acc) ==
    LET k == SkipSpace(s, i)
        key == IF Char(s, k) = "\"" THEN ParseString(s, k + 1, "") ELSE ParseFail
        colon == SkipSpace(s, key.pos)
        r == ParseValue(s, colon + 1)
        j == SkipSpace(s, r.pos)
    IN IF ~key.ok \/ Char(s, colon) # ":" THEN ParseFail
       ELSE IF ~r.ok THEN ParseFail
       ELSE IF Char(s, j) = "," THEN ParseMembers(s, j + 1, SetProp(acc, key.val.v, r.val))
       ELSE IF Char(s, j) = "}" THEN ParseOk(JObj(SetProp(acc, key.val.v, r.val)), j + 1)
       ELSE ParseFail

\* JSON.parse(text): the decoded value, or a thrown SyntaxError
JSONParse(text) ==
    LET r == ParseValue(text, 1)
    IN IF r.ok /\ SkipSpace(text, r.pos) > Len(text)
       THEN Return(r.val)
       ELSE Throw(NewError("Unexpected token in JSON"))

JsonEscapeChar(c) ==
    CASE c = "\"" -> "\\\""
      [] c = "\\" -> "\\\\"
      [] c = "\n" -> "\\n"
      [] c = "\r" -> "\\r"
      [] c = "\t" -> "\\t"
      [] OTHER -> c

JsonQuote(s) ==
    "\"" \o Concat([i \in 1..Len(s) |-> JsonEscapeChar(Char(s, i))], 1, Len(s)) \o "\""

RECURSIVE Stringify(_, _)
\* JSON.stringify(x, null, 2) at indentation ind
Stringify(x, ind) ==
    LET inner == ind \o "  "
    IN CASE x.t = "string" -> JsonQuote(x.v)
         [] x.t = "number" -> IntToString(x.v)
         [] x.t = "boolean" -> IF x.v THEN "true" ELSE "false"
         [] x.t \in {"null", "NaN", "undefined"} -> "null"
         [] x.t = "array" ->
              IF Len(x.v) = 0 THEN "[]"
              ELSE "[\n"
                   \o Join([i \in 1..Len(x.v) |-> inner \o Stringify(x.v[i], inner)], ",\n")
                   \o "\n" \o ind \o "]"
         [] OTHER ->
              LET own == SelectSeq(x.v, LAMBDA p : p[2].t # "undefined")
              IN IF Len(own) = 0 THEN "{}"
                 ELSE "{\n"
                      \o Join([i \in 1..Len(own) |->
                                inner \o JsonQuote(own[i][1]) \o ": "
                                      \o Stringify(own[i][2], inner)], ",\n")
                      \o "\n" \o ind \o "}"

\* the text `${JSON.stringify(data, null, 2)}` interpolates
JSONStringify(x) == IF x.t = "undefined" THEN "undefined" ELSE Stringify(x, "")

-----------------------------------------------------------------------------
(* api-client: parseResponse *)

\* value.trim().replace(/^"|"$/g, "")
StripQuotes(s) ==
    LET a == IF Len(s) >= 1 /\ Char(s, 1) = "\"" THEN SubSeq(s, 2, Len(s)) ELSE s
    IN IF Len(a) >= 1 /\ Char(a, Len(a)) = "\"" THEN SubSeq(a, 1, Len(a) - 1) ELSE a

\* dataString.split("\n").filter(line => line.trim())
NonBlankLines(dataString) == SelectSeq(Split(dataString, "\n"), NonBlank)

RECURSIVE BuildRow(_, _, _, _)
\* headers.forEach((header, index) => row[header.trim()] = ...), from index i on
BuildRow(headers, values, i, row) ==
    IF i > Len(headers) THEN row
    ELSE LET cell == IF i <= Len(values) THEN StripQuotes(Trim(values[i])) ELSE ""
         IN BuildRow(headers, values, i + 1, SetProp(row, Trim(headers[i]), JStr(cell)))

\* the txt / csv / tsv branches (and the final fallback)
parseText(data, format) ==
    LET dataString == IF TypeOf(data) = "string" THEN data.v ELSE ToStr(data)
        lines == NonBlankLines(dataString)
    IN IF format = "txt" THEN JArr([i \in 1..Len(lines) |-> JStr(lines[i])])
       ELSE IF format \in {"csv", "tsv"} THEN
            LET delimiter == IF format = "csv" THEN ";" ELSE "\t"
                headers == IF Len(lines) > 0 THEN Split(lines[1], delimiter) ELSE <<>>
                rows == [k \in 1..(Len(lines) - 1) |->
                            JObj(BuildRow(headers, Split(lines[k + 1], delimiter), 1, <<>>))]
            IN JObj(<<<<"headers", JArr([i \in 1..Len(headers) |-> JStr(headers[i])])>>,
                      <<"rows", JArr(rows)>>>>)
       ELSE JObj(<<<<"raw", JStr(dataString)>>>>)

\* parseResponse without the try / catch around JSON.parse
parseResponseNoCatch(data, format) ==
    IF format = "json" /\ TypeOf(data) = "object" /\ data.t # "null" THEN data
    ELSE IF format = "json" THEN
        IF TypeOf(data) = "string" THEN JSONParse(data.v).value ELSE data
    ELSE parseText(data, format)

parseResponse(data, format) ==
    IF format = "json" /\ TypeOf(data) = "object" /\ data.t # "null" THEN data
    ELSE IF format = "json" THEN
        IF TypeOf(data) = "string"
        THEN LET r == JSONParse(data.v)
             IN IF r.thrown THEN JObj(<<<<"raw", data>>>>) ELSE r.value
        ELSE data
    ELSE parseText(data, format)

-----------------------------------------------------------------------------
(* Property access, as the formatters use it on a response element *)

\* x.name for a named (non-index) property; only called on non-nullish x
Prop(x, name) == IF x.t = "object" THEN Lookup(x.v, name) ELSE JUndefined

\* x[n]
Index(x, n) ==
    CASE x.t = "array" -> IF n < Len(x.v) THEN x.v[n + 1] ELSE JUndefined
      [] x.t = "string" -> IF n < Len(x.v) THEN JStr(Char(x.v, n + 1)) ELSE JUndefined
      [] x.t = "object" -> Lookup(x.v, IntToString(n))
      [] OTHER -> JUndefined

\* a || b
Or(a, b) == IF Truthy(a) THEN a ELSE b

Nullish(x) == x.t \in {"null", "undefined"}

\* the TypeError a property read of null or undefined throws
ReadOfNullish(x, name) ==
    NewError("Cannot read properties of " \o ToStr(x) \o " (reading '" \o name \o "')")

\* data.map(render).join("\n") where render reads properties of each
\* element and rendered[i] is what it returns for element i: the first
\* nullish element makes the map throw
MapLines(data, rendered) ==
    IF \E i \in 1..Len(data.v) : Nullish(data.v[i])
    THEN Throw(ReadOfNullish(
            data.v[CHOOSE i \in 1..Len(data.v) :
                      Nullish(data.v[i]) /\ \A j \in 1..(i - 1) : ~Nullish(data.v[j])],
            "keyword"))
    ELSE Return(Join(rendered, "\n"))

\* data.join("\n") of an array
JoinArray(data, sep) ==
    Join([i \in 1..Len(data.v) |->
            IF Nullish(data.v[i]) THEN "" ELSE ToStr(data.v[i])], sep)

\* data.headers && data.rows
IsTable(data) ==
    /\ ~Nullish(data)
    /\ Truthy(Prop(data, "headers"))
    /\ Truthy(Prop(data, "rows"))

\* the markdown table of the three formatters' csv/tsv branch, from the
\* header row on
MarkdownTable(data) ==
    LET headers == Prop(data, "headers").v
        rows == Prop(data, "rows").v
        cell(row, h) == ToStr(Or(Lookup(row.v, h.v), JStr("")))
    IN "| " \o JoinArray(Prop(data, "headers"), " | ") \o " |\n|"
       \o Join([i \in 1..Len(headers) |-> "---"], "|") \o "|\n"
       \o Join([r \in 1..Len(rows) |->
                  "| " \o Join([i \in 1..Len(headers) |-> cell(rows[r], headers[i])], " | ")
                       \o " |"], "\n")

-----------------------------------------------------------------------------
(* tools/keywords: formatKeywordsResponse *)

KeywordLine(kw, i) ==
    IntToString(i) \o ". " \o ToStr(Or(Or(Prop(kw, "keyword"), Index(kw, 0)), kw))
    \o " - Broad: " \o ToStr(Or(Or(Prop(kw, "broad_frequency"), Index(kw, 1)), JStr("N/A")))
    \o ", Exact: " \o ToStr(Or(Or(Prop(kw, "exact_frequency"), Index(kw, 2)), JStr("N/A")))

formatKeywordsResponse(data, format, query) ==
    LET heading == "# Keywords Search Results: \"" \o query \o "\"\n\n"
        dump == Return(heading \o JSONStringify(data))
    IN IF format = "json" THEN
            IF data.t = "array" THEN
                LET lines == MapLines(data, [i \in 1..Len(data.v) |-> KeywordLine(data.v[i], i)])
                IN IF lines.thrown THEN lines
                   ELSE Return(heading \o "Found " \o IntToString(Len(data.v))
                               \o " keywords:\n\n" \o lines.value)
            ELSE dump
       ELSE IF format = "txt" THEN
            IF data.t = "array"
            THEN Return(heading \o "Found " \o IntToString(Len(data.v))
                        \o " keywords:\n\n" \o JoinArray(data, "\n"))
            ELSE Return(heading \o ToStr(data))
       ELSE IF format \in {"csv", "tsv"} /\ IsTable(data) THEN
            Return(heading \o "Found " \o IntToString(Len(Prop(data, "rows").v))
                   \o " keywords:\n\n" \o MarkdownTable(data))
       ELSE dump

-----------------------------------------------------------------------------
(* tools/domains: formatDomainResponse, formatComparisonResponse *)

DomainLine(kw, i) ==
    LET keyword == Or(Or(Prop(kw, "keyword"), Index(kw, 0)), kw)
        position == IF Prop(kw, "position").t # "undefined"
                    THEN Prop(kw, "position") ELSE Index(kw, 5)
        broad == Or(Or(Prop(kw, "broad_frequency"), Index(kw, 4)), JStr("N/A"))
        exact == Or(Or(Prop(kw, "exact_frequency"), Index(kw, 5)), JStr("N/A"))
    IN IntToString(i) \o ". " \o ToStr(keyword) \o " - Position: " \o ToStr(position)
       \o ", Broad: " \o ToStr(broad) \o ", Exact: " \o ToStr(exact)

\* region is "" when the caller gave none
formatDomainResponse(data, format, domain, region) ==
    LET regionText == IF region # "" THEN " (" \o region \o ")" ELSE ""
        heading == "# Domain Keywords: " \o domain \o regionText \o "\n\n"
        dump == Return(heading \o JSONStringify(data))
    IN IF format = "json" THEN
            IF data.t = "array" THEN
                LET lines == MapLines(data, [i \in 1..Len(data.v) |-> DomainLine(data.v[i], i)])
                IN IF lines.thrown THEN lines
                   ELSE Return(heading \o "Found " \o IntToString(Len(data.v))
                               \o " keywords:\n\n" \o lines.value)
            ELSE dump
       ELSE IF format = "txt" THEN
            IF data.t = "array"
            THEN Return(heading \o "Found " \o IntToString(Len(data.v))
                        \o " keywords:\n\n" \o JoinArray(data, "\n"))
            ELSE Return(heading \o ToStr(data))
       ELSE IF format \in {"csv", "tsv"} /\ IsTable(data) THEN
            Return(heading \o "Found " \o IntToString(Len(Prop(data, "rows").v))
                   \o " keywords:\n\n" \o MarkdownTable(data))
       ELSE dump

ComparisonLabel(comparisonType) ==
    IF comparisonType = "intersect" THEN "Common"
    ELSE IF comparisonType = "domain1_uniq" THEN "Unique to first"
    ELSE "Unique to second"

formatComparisonResponse(data, format, domains, comparisonType, region) ==
    LET regionText == IF region # "" THEN " (" \o region \o ")" ELSE ""
        comparisonText == ComparisonLabel(comparisonType)
        heading == "# Domain Comparison: " \o Join(domains, " vs ") \o regionText \o "\n\n"
        dump == Return(heading \o JSONStringify(data))
    IN IF format = "json" THEN
            IF data.t = "array" THEN
                LET lines == MapLines(data, [i \in 1..Len(data.v) |-> DomainLine(data.v[i], i)])
                IN IF lines.thrown THEN lines
                   ELSE Return(heading \o comparisonText \o " keywords ("
                               \o IntToString(Len(data.v)) \o "):\n\n" \o lines.value)
            ELSE dump
       ELSE IF format = "txt" THEN
            IF data.t = "array"
            THEN Return(heading \o comparisonText \o " keywords ("
                        \o IntToString(Len(data.v)) \o "):\n\n" \o JoinArray(data, "\n"))
            ELSE Return(heading \o ToStr(data))
       ELSE IF format \in {"csv", "tsv"} /\ IsTable(data) THEN
            Return(heading \o comparisonText \o " keywords ("
                   \o IntToString(Len(Prop(data, "rows").v)) \o "):\n\n" \o MarkdownTable(data))
       ELSE dump

-----------------------------------------------------------------------------
(* The handlers' shared steps *)

Has(params, k) == k \in DOMAIN params

\* params.region, "" when absent
RegionOf(params) == IF Has(params, "region") THEN params.region ELSE ""

\* parseInt(text, 10): NaN unless optional white space and sign are followed
\* by a digit
ParseInt(text) ==
    LET i == SkipSpace(text, 1)
        signed == Char(text, i) \in {"-", "+"}
        from == IF signed THEN i + 1 ELSE i
        to == DigitsEnd(text, from)
        n == StringToNat(SubSeq(text, from, to - 1))
    IN IF to = from THEN JNaN
       ELSE JNum(IF Char(text, i) = "-" THEN -n ELSE n)

\* typeof response === "string" ? parseInt(response, 10)
\*   : (typeof response === "number" ? response : parseInt(String(response), 10))
CountOf(response) ==
    IF TypeOf(response) = "string" THEN ParseInt(response.v)
    ELSE IF TypeOf(response) = "number" THEN response
    ELSE ParseInt(ToStr(response))

\* textContent.length > CHARACTER_LIMIT ? textContent.substring(0, CHARACTER_LIMIT) + notice
\*                                      : textContent
Truncate(textContent) ==
    IF Len(textContent) > CHARACTER_LIMIT
    THEN Substring(textContent, CHARACTER_LIMIT) \o TruncationNotice
    ELSE textContent

\* the handlers' return values: { content: [{type: "text", text}], structuredContent? }
Outcome(text, structuredContent) ==
    [text |-> text, hasStructured |-> TRUE, structuredContent |-> structuredContent]
TextOnly(text) ==
    [text |-> text, hasStructured |-> FALSE, structuredContent |-> JUndefined]

\* a handler whose catch block lets the error go
CatchRethrow(error) == Throw(error)

\* catch (error) { return { content: [{ text: error instanceof Error ? error.message
\*                                                                   : String(error) }] } }
Catch(error) == Return(TextOnly(error.message))

\* a handler that issues its request again when the first attempt failed
DoneRetry(result, made) ==
    [thrown |-> result.thrown, value |-> result.value, calls |-> made,
     requests |-> IF result.thrown \/ ~result.value.hasStructured
                  THEN <<"retry">> ELSE <<>>]

\* what a handler does after its await: what it returns or throws, the
\* normalizer / formatter calls it made, and the further requests it issued
\* (none: no handler calls makeApiRequest again)
Done(result, made) ==
    [thrown |-> result.thrown, value |-> result.value, calls |-> made, requests |-> <<>>]

\* the tail common to the handlers in normal mode: format, truncate, return
Finish(formatted, structuredContent, made) ==
    IF formatted.thrown THEN Done(Catch(formatted.value), made)
    ELSE Done(Return(Outcome(Truncate(formatted.value), structuredContent)), made)

-----------------------------------------------------------------------------
(* tools/keywords: searchKeywords, searchKeywordsBatch *)

\* up to the await: the request searchKeywords issues
searchKeywordsRequest(params) ==
    LET encodedQuery == encodePercentEncoding(params.query)
    IN makeApiRequestConfig("/v1/keywords/", "GET", JUndefined,
          JObj(<< <<"q", JStr(encodedQuery)>>,
                  <<"num", JNum(params.num)>>,
                  <<"format", JStr(params.format)>>,
                  <<"report_type", JStr(params.report_type)>>,
                  <<"result_count", JNum(IF params.result_count THEN 1 ELSE 0)>> >>))

\* a searchKeywords that normalizes the response before it looks at
\* result_count
searchKeywordsResumeNormalizing(params, result) ==
    LET response == makeApiRequestSettle(result)
    IN IF response.thrown THEN Done(Catch(response.value), <<>>)
       ELSE LET parsed == parseResponse(response.value, params.format)
            IN IF params.result_count THEN
                    LET count == CountOf(parsed)
                    IN Done(Return(Outcome("Total results found: " \o ToStr(count),
                                           JObj(<< <<"total", count>> >>))),
                            <<"parseResponse">>)
               ELSE Finish(formatKeywordsResponse(parsed, params.format, params.query),
                           parsed, <<"parseResponse", "formatKeywordsResponse">>)

\* after the await
searchKeywordsResume(params, result) ==
    LET response == makeApiRequestSettle(result)
    IN IF response.thrown THEN Done(Catch(response.value), <<>>)
       ELSE IF params.result_count THEN
            LET count == CountOf(response.value)
            IN Done(Return(Outcome("Total results found: " \o ToStr(count),
                                   JObj(<< <<"total", count>> >>))), <<>>)
       ELSE LET parsed == parseResponse(response.value, params.format)
            IN Finish(formatKeywordsResponse(parsed, params.format, params.query),
                      parsed, <<"parseResponse", "formatKeywordsResponse">>)

\* a searchKeywordsBatch that sends q2 even when there is no exclusion
searchKeywordsBatchRequestAlwaysQ2(params) ==
    LET queriesText == Join(params.queries, "\r\n")
        exclusionsText == IF Has(params, "exclusions")
                          THEN Join(params.exclusions, "\r\n") ELSE ""
    IN makeApiRequestConfig("/v1/mkeywords/", "POST",
          JObj(<< <<"q", JStr(queriesText)>>,
                  <<"q2", JStr(exclusionsText)>>,
                  <<"num", JStr(IntToString(params.num))>>,
                  <<"format", JStr(params.format)>> >>),
          JUndefined)

searchKeywordsBatchRequest(params) ==
    LET queriesText == Join(params.queries, "\r\n")
        exclusionsText == IF Has(params, "exclusions")
                          THEN Join(params.exclusions, "\r\n") ELSE ""
        postData == << <<"q", JStr(queriesText)>> >>
                    \o (IF exclusionsText # "" THEN << <<"q2", JStr(exclusionsText)>> >>
                        ELSE <<>>)
    IN makeApiRequestConfig("/v1/mkeywords/", "POST",
          JObj(Spread(postData, << <<"num", JStr(IntToString(params.num))>>,
                                   <<"format", JStr(params.format)>> >>)),
          JUndefined)

searchKeywordsBatchResume(params, result) ==
    LET response == makeApiRequestSettle(result)
    IN IF response.thrown THEN Done(Catch(response.value), <<>>)
       ELSE LET parsed == parseResponse(response.value, params.format)
            IN Finish(formatKeywordsResponse(parsed, params.format,
                          "Batch search (" \o IntToString(Len(params.queries)) \o " queries)"),
                      parsed, <<"parseResponse", "formatKeywordsResponse">>)

-----------------------------------------------------------------------------
(* tools/domains: getDomainKeywords, compareDomains *)

\* if (params.region) requestParams.region = params.region
WithRegion(fields, params) ==
    IF RegionOf(params) # "" THEN SetProp(fields, "region", JStr(params.region)) ELSE fields

getDomainKeywordsRequest(params) ==
    LET encodedDomain == encodePercentEncoding(params.domain)
        requestParams == << <<"q", JStr(encodedDomain)>>,
                            <<"num", JNum(params.num)>>,
                            <<"format", JStr(params.format)>>,
                            <<"result_count", JNum(IF params.result_count THEN 1 ELSE 0)>> >>
    IN makeApiRequestConfig("/v1/site/", "GET", JUndefined,
                            JObj(WithRegion(requestParams, params)))

getDomainKeywordsResume(params, result) ==
    LET response == makeApiRequestSettle(result)
    IN IF response.thrown THEN Done(Catch(response.value), <<>>)
       ELSE IF params.result_count THEN
            LET count == CountOf(response.value)
            IN Done(Return(Outcome("Total keywords found for " \o params.domain \o ": "
                                       \o ToStr(count),
                                   JObj(<< <<"total", count>>,
                                           <<"domain", JStr(params.domain)>> >>))), <<>>)
       ELSE LET parsed == parseResponse(response.value, params.format)
            IN Finish(formatDomainResponse(parsed, params.format, params.domain,
                                           RegionOf(params)),
                      parsed, <<"parseResponse", "formatDomainResponse">>)

\* params.domains.map(d => encodePercentEncoding(d)).join("\r\n")
EncodedDomains(params) ==
    Join([i \in 1..Len(params.domains) |-> encodePercentEncoding(params.domains[i])], "\r\n")

\* params.domains / params.comparison_type as values of the structured payload
DomainsValue(params) == JArr([i \in 1..Len(params.domains) |-> JStr(params.domains[i])])
ComparisonTypeValue(params) ==
    IF Has(params, "comparison_type") THEN JStr(params.comparison_type) ELSE JUndefined

compareDomainsRequest(params) ==
    LET isTwoDomains == Len(params.domains) = 2
        endpoint == IF isTwoDomains THEN "/v1/site_cmp/" ELSE "/v1/site_mcmp/"
    IN IF params.result_count THEN
            LET base == << <<"result_count", JNum(1)>>, <<"format", JStr(params.format)>> >>
                two == SetProp(SetProp(base, "q", JStr(encodePercentEncoding(params.domains[1]))),
                               "q2", JStr(encodePercentEncoding(params.domains[2])))
                requestParams ==
                    IF isTwoDomains
                    THEN IF Truthy(ComparisonTypeValue(params))
                         THEN SetProp(two, "comparison_type", ComparisonTypeValue(params))
                         ELSE two
                    ELSE SetProp(base, "q", JStr(EncodedDomains(params)))
            IN makeApiRequestConfig(endpoint,
                   IF isTwoDomains THEN "GET" ELSE "POST",
                   IF isTwoDomains THEN JUndefined ELSE JObj(WithRegion(requestParams, params)),
                   IF isTwoDomains THEN JObj(WithRegion(requestParams, params)) ELSE JUndefined)
       ELSE IF isTwoDomains THEN
            makeApiRequestConfig(endpoint, "GET", JUndefined,
               JObj(WithRegion(<< <<"q", JStr(encodePercentEncoding(params.domains[1]))>>,
                                  <<"q2", JStr(encodePercentEncoding(params.domains[2]))>>,
                                  <<"num", JNum(params.num)>>,
                                  <<"format", JStr(params.format)>>,
                                  <<"comparison_type", ComparisonTypeValue(params)>> >>, params)))
       ELSE makeApiRequestConfig(endpoint, "POST",
               JObj(WithRegion(<< <<"q", JStr(EncodedDomains(params))>>,
                                  <<"num", JStr(IntToString(params.num))>>,
                                  <<"format", JStr(params.format)>> >>, params)),
               JUndefined)

\* the own enumerable properties an object spread copies from x
SpreadProps(x) ==
    CASE x.t = "object" -> x.v
      [] x.t = "array" -> [i \in 1..Len(x.v) |-> <<IntToString(i - 1), x.v[i]>>]
      [] x.t = "string" -> [i \in 1..Len(x.v) |-> <<IntToString(i - 1), JStr(Char(x.v, i))>>]
      [] OTHER -> <<>>

compareDomainsResume(params, result) ==
    LET response == makeApiRequestSettle(result)
        echo == << <<"domains", DomainsValue(params)>>,
                   <<"comparison_type", ComparisonTypeValue(params)>> >>
    IN IF response.thrown THEN Done(Catch(response.value), <<>>)
       ELSE IF params.result_count THEN
            LET count == CountOf(response.value)
            IN Done(Return(Outcome("Total keywords found: " \o ToStr(count),
                                   JObj(Spread(<< <<"total", count>> >>, echo)))), <<>>)
       ELSE LET parsed == parseResponse(response.value, params.format)
            IN Finish(formatComparisonResponse(parsed, params.format, params.domains,
                          IF Has(params, "comparison_type") THEN params.comparison_type ELSE "",
                          RegionOf(params)),
                      JObj(Spread(SpreadProps(parsed), echo)),
                      <<"parseResponse", "formatComparisonResponse">>)

-----------------------------------------------------------------------------
(* The validation layer: defaults the schemas apply before a handler runs *)

SearchKeywordsSchema(a) ==
    a @@ [num |-> DEFAULT_NUM, format |-> "json", report_type |-> "report",
          result_count |-> FALSE]
SearchKeywordsBatchSchema(a) == a @@ [num |-> DEFAULT_NUM, format |-> "json"]
GetDomainKeywordsSchema(a) ==
    a @@ [num |-> DEFAULT_NUM, format |-> "json", result_count |-> FALSE]
\* the schema without its comparison_type default
CompareDomainsSchemaNoDefault(a) ==
    a @@ [num |-> DEFAULT_NUM, format |-> "json", result_count |-> FALSE]

CompareDomainsSchema(a) ==
    a @@ [comparison_type |-> "intersect", num |-> DEFAULT_NUM, format |-> "json",
          result_count |-> FALSE]

-----------------------------------------------------------------------------
(* Inputs of the model *)

\* BUKVARIX_API_KEY of the environment; "" stands for unset or empty
EnvKeys == {"", "k3y"}

QueryTexts == {"okna", "a b*", "!c ~d"}
BatchTexts == {"okna pvh", "dver* !b~"}
ExclusionTexts == {"kupit!"}
DomainPool == <<"a.com", "b-c.ru", "d.org", "e.net", "f.io">>
Regions == {"msk"}
Nums == {10}

\* all lists over S of length lo..hi
ListsOf(S, lo, hi) == UNION {[1..n -> S] : n \in lo..hi}

SearchKeywordsArgs ==
    {[query |-> q, format |-> f, result_count |-> rc] :
        q \in QueryTexts, f \in FORMATS, rc \in BOOLEAN}
    \cup {[query |-> q] : q \in QueryTexts}
    \cup {[query |-> q, num |-> n, report_type |-> rt] :
            q \in QueryTexts, n \in Nums, rt \in REPORT_TYPES}

SearchKeywordsBatchArgs ==
    {[queries |-> qs, format |-> f] :
        qs \in ListsOf(BatchTexts, 1, MaxQueries), f \in FORMATS}
    \cup {[queries |-> qs, exclusions |-> ex, format |-> f] :
            qs \in ListsOf(BatchTexts, 1, MaxQueries),
            ex \in ListsOf(ExclusionTexts, 0, MaxExclusions), f \in FORMATS}
    \cup {[queries |-> qs, num |-> n] : qs \in ListsOf(BatchTexts, 1, 1), n \in Nums}

DomainNames == {DomainPool[i] : i \in 1..2}

GetDomainKeywordsArgs ==
    {[domain |-> d, format |-> f, result_count |-> rc] :
        d \in DomainNames, f \in FORMATS, rc \in BOOLEAN}
    \cup {[domain |-> d, region |-> r, format |-> f, result_count |-> rc] :
            d \in DomainNames, r \in Regions, f \in FORMATS, rc \in BOOLEAN}
    \cup {[domain |-> d, num |-> n] : d \in DomainNames, n \in Nums}

\* the first 2..MaxDomains domains of the pool
DomainLists == {SubSeq(DomainPool, 1, n) : n \in 2..MaxDomains}

CompareDomainsArgs ==
    {[domains |-> ds, format |-> f, result_count |-> rc] :
        ds \in DomainLists, f \in FORMATS, rc \in BOOLEAN}
    \cup {[domains |-> ds, comparison_type |-> ct, format |-> f, result_count |-> rc] :
            ds \in DomainLists, ct \in COMPARISON_TYPES, f \in FORMATS, rc \in BOOLEAN}
    \cup {[domains |-> ds, comparison_type |-> ct, region |-> r, num |-> n, result_count |-> rc] :
            ds \in DomainLists, ct \in COMPARISON_TYPES, r \in Regions, n \in Nums,
            rc \in BOOLEAN}

\* a response body longer than CHARACTER_LIMIT
LongBody == Repeat("a", CHARACTER_LIMIT + LongExtra)

KeywordRecord == JArr(<<JStr("okna plastikovye"), JNum(2), JNum(17), JNum(1200), JNum(300)>>)
DomainRecord ==
    JArr(<<JStr("okna"), JNum(1), JNum(4), JNum(5000), JNum(900), JNum(40), JNum(7)>>)
CompareRecord ==
    JArr(<<JStr("okna"), JNum(1), JNum(4), JNum(5000), JNum(900), JNum(40), JNum(7), JNum(3)>>)
NamedRecord ==
    JObj(<< <<"keyword", JStr("dveri")>>, <<"broad_frequency", JNum(80)>>,
            <<"exact_frequency", JNum(0)>>, <<"position", JNum(2)>> >>)

\* response.data of a fulfilled request: text, or what axios decoded
ResponseData ==
    {JStr(""), JStr("42"), JStr(" 17\n"), JStr("okna\n\nokna pvh\n"),
     JStr("a;b\n1;2\n3"), JStr("k\tn\n\"w\"\t5\t6"), JStr("{bad"),
     JStr("[[\"okna\",1,4,30,20]]"), JStr(LongBody),
     JArr(<<KeywordRecord>>), JArr(<<DomainRecord, CompareRecord>>),
     JArr(<<KeywordRecord, JNull>>), JArr(<<NamedRecord>>), JArr(<<JStr("okna")>>),
     JArr(<<>>), JNum(42), JNull,
     JObj(<< <<"keywords", JArr(<<NamedRecord>>)>>, <<"total", JNum(1)>>,
             <<"comparison_type", JStr("intersect")>>,
             <<"domains", JArr(<<JStr("x.com")>>)>> >>)}

\* what axios rejects with
TransportErrors ==
    {HttpError(st, JStr("Bad query")) : st \in {400, 404}}
    \cup {HttpError(st, JObj(<< <<"error", JStr("no")>> >>)) :
            st \in {400, 401, 402, 404, 429, 500, 503}}
    \cup {NetworkError(c, "socket failure") :
            c \in {"ECONNABORTED", "ENOTFOUND", "ECONNREFUSED", "ERR_NETWORK"}}
    \cup {OtherError("boom"), ThrownValue(JStr("oops"))}

TransportResults ==
    {Fulfilled(d) : d \in ResponseData} \cup {Rejected(e) : e \in TransportErrors}

-----------------------------------------------------------------------------
(* The invocation of one tool *)

NotSettled == [ok |-> FALSE, data |-> JUndefined, error |-> OtherError("not settled")]

Init ==
    /\ \E env \in EnvKeys : API_KEY = IF env # "" THEN env ELSE "free"
    /\ pc = "idle"
    /\ op = "none"
    /\ args = <<>>
    /\ input = <<>>
    /\ requests = <<>>
    /\ calls = <<>>
    /\ settled = NotSettled
    /\ outcomes = <<>>
    /\ escaped = FALSE

\* the handler runs up to its await: one request goes out
Call(name, a, p, config) ==
    /\ pc = "idle"
    /\ pc' = "awaiting"
    /\ op' = name
    /\ args' = a
    /\ input' = p
    /\ requests' = Append(requests, config)
    /\ UNCHANGED <<API_KEY, calls, settled, outcomes, escaped>>

\* the request settles with result and the handler runs to its end
Resume(name, result, done) ==
    /\ pc = "awaiting"
    /\ op = name
    /\ pc' = "done"
    /\ settled' = result
    /\ calls' = done.calls
    /\ requests' = requests \o done.requests
    /\ outcomes' = IF done.thrown THEN outcomes ELSE Append(outcomes, done.value)
    /\ escaped' = done.thrown
    /\ UNCHANGED <<API_KEY, op, args, input>>

SearchKeywordsCall ==
    \E a \in SearchKeywordsArgs :
        LET p == SearchKeywordsSchema(a)
        IN Call("searchKeywords", a, p, searchKeywordsRequest(p))

SearchKeywordsSettle ==
    \E r \in TransportResults :
        Resume("searchKeywords", r, searchKeywordsResume(input, r))

SearchKeywordsBatchCall ==
    \E a \in SearchKeywordsBatchArgs :
        LET p == SearchKeywordsBatchSchema(a)
        IN Call("searchKeywordsBatch", a, p, searchKeywordsBatchRequest(p))

SearchKeywordsBatchSettle ==
    \E r \in TransportResults :
        Resume("searchKeywordsBatch", r, searchKeywordsBatchResume(input, r))

GetDomainKeywordsCall ==
    \E a \in GetDomainKeywordsArgs :
        LET p == GetDomainKeywordsSchema(a)
        IN Call("getDomainKeywords", a, p, getDomainKeywordsRequest(p))

GetDomainKeywordsSettle ==
    \E r \in TransportResults :
        Resume("getDomainKeywords", r, getDomainKeywordsResume(input, r))

CompareDomainsCall ==
    \E a \in CompareDomainsArgs :
        LET p == CompareDomainsSchema(a)
        IN Call("compareDomains", a, p, compareDomainsRequest(p))

CompareDomainsSettle ==
    \E r \in TransportResults :
        Resume("compareDomains", r, compareDomainsResume(input, r))

Next ==
    \/ SearchKeywordsCall
    \/ SearchKeywordsSettle
    \/ SearchKeywordsBatchCall
    \/ SearchKeywordsBatchSettle
    \/ GetDomainKeywordsCall
    \/ GetDomainKeywordsSettle
    \/ CompareDomainsCall
    \/ CompareDomainsSettle

Spec == Init /\ [][Next]_vars

-----------------------------------------------------------------------------
(* makeApiRequest called on its own *)

ApiEndpoints == {"/v1/keywords/", "/v1/mkeywords/"}

ApiData ==
    {JUndefined,
     JObj(<<>>),
     JObj(<< <<"q", JStr("okna pvh")>>, <<"num", JStr("10")>> >>),
     JObj(<< <<"q", JArr(<<JStr("okna"), JStr("a b*")>>)>>, <<"format", JStr("json")>> >>),
     JObj(<< <<"num", JNum(250)>>, <<"q2", JArr(<<JStr("x&y=z")>>)>>,
             <<"api_key", JStr("other")>>, <<"exact", JBool(TRUE)>> >>)}

ApiParams ==
    {JUndefined,
     JObj(<<>>),
     JObj(<< <<"q", JStr("okna")>>, <<"num", JNum(250)>> >>),
     JObj(<< <<"api_key", JStr("other")>>, <<"result_count", JNum(1)>>,
             <<"exact", JBool(TRUE)>> >>)}

InitApi ==
    /\ \E env \in EnvKeys : API_KEY = IF env # "" THEN env ELSE "free"
    /\ pc = "idle"
    /\ op = "makeApiRequest"
    /\ args = <<>>
    /\ input = <<>>
    /\ requests = <<>>
    /\ calls = <<>>
    /\ settled = NotSettled
    /\ outcomes = <<>>
    /\ escaped = FALSE

\* makeApiRequest up to its await
MakeApiRequestCall ==
    /\ pc = "idle"
    /\ \E e \in ApiEndpoints, m \in {"GET", "POST"}, d \in ApiData, q \in ApiParams :
          /\ args' = [endpoint |-> e, method |-> m, data |-> d, params |-> q]
          /\ requests' = Append(requests, makeApiRequestConfig(e, m, d, q))
    /\ input' = args'
    /\ pc' = "awaiting"
    /\ UNCHANGED <<API_KEY, op, calls, settled, outcomes, escaped>>

\* the axios call settles: makeApiRequest returns response.data or throws
MakeApiRequestSettle ==
    /\ pc = "awaiting"
    /\ \E r \in TransportResults :
          /\ settled' = r
          /\ outcomes' = Append(outcomes, makeApiRequestSettle(r))
    /\ pc' = "done"
    /\ UNCHANGED <<API_KEY, op, args, input, requests, calls, escaped>>

NextApi == MakeApiRequestCall \/ MakeApiRequestSettle

SpecApi == InitApi /\ [][NextApi]_vars

-----------------------------------------------------------------------------
(* parseResponse called on its own *)

JsonValues ==
    {JNum(0), JNum(-7), JStr(""), JStr("a \"b\"\n"), JNull, JBool(TRUE), JBool(FALSE),
     JArr(<<>>), JObj(<<>>), JArr(<<KeywordRecord>>), JArr(<<JNull, JArr(<<JNum(1)>>)>>),
     NamedRecord, JObj(<< <<"data", JArr(<<DomainRecord, CompareRecord>>)>>,
                          <<"raw", JObj(<< <<"k", JStr("v")>> >>)>> >>)}

\* JSON texts with the value each encodes
JsonTexts ==
    {<<JSONStringify(x), x>> : x \in JsonValues}
    \cup {<<"42", JNum(42)>>, <<" 17\n", JNum(17)>>,
          <<"[[\"okna\",1,4,30,20]]",
            JArr(<<JArr(<<JStr("okna"), JNum(1), JNum(4), JNum(30), JNum(20)>>)>>)>>,
          <<"{\"a\":[1,{\"b\":null}],\"a\":\"x\\/y\"}", JObj(<< <<"a", JStr("x/y")>> >>)>>}

\* texts that are not JSON
NonJsonTexts ==
    {"", "  ", "{bad", "okna\n\nokna pvh\n", "[1,]", "[1 2]", "{\"a\":}", "{\"a\" 1}",
     "nul", "\"open", "01", "-", "[1]]", "{a:1}", "a;b\n1;2\n3",
     " a ; b;c\n \"1\" ;\"2\";3;4\n\n5\n", "k\tn\n\"w\"\t5\t6", LongBody,
     "a;a\n1;2", "x;y\r\n1;2\r\n", "h;g\n\"\"q\"\";\" 1 \"", "h\tg\n\" 1 \"\t2"}

ParseInputs ==
    {JStr(p[1]) : p \in JsonTexts} \cup {JStr(text) : text \in NonJsonTexts}
    \cup JsonValues

InitParse ==
    /\ API_KEY = "free"
    /\ pc = "idle"
    /\ op = "parseResponse"
    /\ args = <<>>
    /\ input = <<>>
    /\ requests = <<>>
    /\ calls = <<>>
    /\ settled = NotSettled
    /\ outcomes = <<>>
    /\ escaped = FALSE

ParseResponseCall ==
    /\ pc = "idle"
    /\ \E d \in ParseInputs, f \in FORMATS :
          /\ args' = [data |-> d, format |-> f]
          /\ outcomes' = Append(outcomes, parseResponse(d, f))
    /\ input' = args'
    /\ pc' = "done"
    /\ UNCHANGED <<API_KEY, op, requests, calls, settled, escaped>>

NextParse == ParseResponseCall

SpecParse == InitParse /\ [][NextParse]_vars

-----------------------------------------------------------------------------
(* Reading a request back: application/x-www-form-urlencoded decoding *)

CharOfCode(n) ==
    IF n = 10 THEN "\n"
    ELSE IF n = 13 THEN "\r"
    ELSE IF n = 9 THEN "\t"
    ELSE IF n <= 95 THEN Char(AsciiLow, n - 31)
    ELSE Char(AsciiHigh, n - 96)

HexValue(c) == (CHOOSE i \in 1..Len(HexDigits) : Char(HexDigits, i) = c) - 1

RECURSIVE FormDecodeText(_, _)
\* the text a form-encoded name or value stands for, from position i on
FormDecodeText(s, i) ==
    IF i > Len(s) THEN ""
    ELSE IF Char(s, i) = "+" THEN " " \o FormDecodeText(s, i + 1)
    ELSE IF Char(s, i) = "%"
         THEN CharOfCode(16 * HexValue(Char(s, i + 1)) + HexValue(Char(s, i + 2)))
              \o FormDecodeText(s, i + 3)
    ELSE Char(s, i) \o FormDecodeText(s, i + 1)

\* the <<name, value>> pairs of a form-encoded body
FormDecode(body) ==
    LET parts == Split(body, "&")
        eq(part) == CHOOSE i \in 1..Len(part) :
                        Char(part, i) = "=" /\ \A j \in 1..(i - 1) : Char(part, j) # "="
    IN [k \in 1..Len(parts) |->
            <<FormDecodeText(SubSeq(parts[k], 1, eq(parts[k]) - 1), 1),
              FormDecodeText(SubSeq(parts[k], eq(parts[k]) + 1, Len(parts[k])), 1)>>]

FieldNames(pairs) == {pairs[i][1] : i \in 1..Len(pairs)}

\* the value of the first pair named name
FieldValue(pairs, name) ==
    pairs[CHOOSE i \in 1..Len(pairs) :
            pairs[i][1] = name /\ \A j \in 1..(i - 1) : pairs[j][1] # name][2]

HasMarker(text) == \E i \in 1..Len(text) : Char(text, i) \in {"*", "!", "~"}

\* the handler ran in count-only mode
CountOnly == op # "searchKeywordsBatch" /\ input.result_count

IsHandler == op \in {"searchKeywords", "searchKeywordsBatch", "getDomainKeywords",
                     "compareDomains"}

-----------------------------------------------------------------------------
(* C1..C10 *)

\* C1: whatever the operation and the outcome (normal, truncated, count-only,
\* error), the display text has at most CHARACTER_LIMIT characters.
C1_DisplayTextWithinLimit ==
    \A i \in 1..Len(outcomes) : Len(outcomes[i].text) <= CHARACTER_LIMIT

\* C2: whatever the transport result, the invocation ends by returning
\* exactly one outcome, and no exception passes the handler boundary.
C2_OneOutcomeNoEscape ==
    /\ ~escaped
    /\ pc = "done" => Len(outcomes) = 1
    /\ pc # "done" => Len(outcomes) = 0

\* a formatter threw after a successful request and the handler caught it
C2_Witness ==
    /\ pc = "done"
    /\ settled.ok
    /\ ~escaped
    /\ Len(outcomes) = 1
    /\ ~outcomes[1].hasStructured

\* C3: an invocation returns a text-only failure outcome only when the
\* transport request failed, the text being the classifier's message; when
\* the request succeeded the outcome has text and a structured payload.
C3_OnlyTransportFailuresFail ==
    (pc = "done" /\ Len(outcomes) = 1) =>
        IF settled.ok
        THEN outcomes[1].hasStructured
        ELSE outcomes[1] = TextOnly(handleApiError(settled.error))

\* C4: an invocation issues exactly one HTTP request, none after a failure
\* or a success, and a failed attempt gives one classified error outcome.
C4_ExactlyOneRequest ==
    /\ pc = "idle" => Len(requests) = 0
    /\ pc \in {"awaiting", "done"} => Len(requests) = 1
    /\ (pc = "done" /\ ~settled.ok) =>
            /\ Len(outcomes) = 1
            /\ outcomes[1] = TextOnly(handleApiError(settled.error))

\* a comparison whose request failed has ended
C4_Witness ==
    /\ pc = "done"
    /\ op = "compareDomains"
    /\ ~settled.ok
    /\ Len(requests) = 1
    /\ Len(outcomes) = 1

\* the fields a POST body must hold: api_key, then the caller's fields in
\* order, list values joined with CRLF
ExpectedForm(data) ==
    << <<"api_key", API_KEY>> >>
    \o [i \in 1..Len(data) |->
          <<data[i][1],
            IF data[i][2].t = "array"
            THEN Join([j \in 1..Len(data[i][2].v) |-> data[i][2].v[j].v], "\r\n")
            ELSE ToStr(data[i][2])>>]

BodyPlacement(c) ==
    /\ c.data.t = "string"
    /\ FormDecode(c.data.v) = ExpectedForm(args.data.v)
    /\ c.params = JUndefined

QueryPlacement(c) ==
    /\ c.data = JUndefined
    /\ c.params.t = "object"
    /\ Lookup(c.params.v, "api_key") = JStr(API_KEY)
    /\ args.params = JUndefined => c.params.v = << <<"api_key", JStr(API_KEY)>> >>

FreeTextSent(c) ==
    IF c.params.t = "object"
    THEN {Lookup(c.params.v, k).v : k \in {k \in {"q", "q2"} : HasKey(c.params.v, k)}}
    ELSE {c.data.v}

\* C6: in every request a handler sends, no free-text value holds a literal
\* '*', '!' or '~'.
C6_MarkersEncoded ==
    IsHandler => \A i \in 1..Len(requests) : \A text \in FreeTextSent(requests[i]) :
                    ~HasMarker(text)

\* [keyword, wordCount, charCount, broadFrequency, exactFrequency]
IsKeywordRecord(x) ==
    /\ x.t = "array"
    /\ Len(x.v) = 5
    /\ x.v[1].t = "string"
    /\ \A k \in 2..5 : x.v[k].t = "number"

\* C7: for a keyword search with format json whose response is an array of
\* positional records, the i-th enumerated line shows element[0] as keyword,
\* element[3] as Broad and element[4] as Exact.
C7_KeywordLinePositions ==
    (/\ pc = "done"
     /\ op \in {"searchKeywords", "searchKeywordsBatch"}
     /\ settled.ok
     /\ ~CountOnly
     /\ input.format = "json") =>
        LET data == parseResponse(settled.data, "json")
        IN (data.t = "array" /\ \A i \in 1..Len(data.v) : IsKeywordRecord(data.v[i])) =>
             /\ Len(outcomes) = 1
             /\ LET lines == Split(outcomes[1].text, "\n")
                IN /\ Len(lines) = 4 + Len(data.v)
                   /\ \A i \in 1..Len(data.v) :
                        lines[4 + i] = IntToString(i) \o ". " \o data.v[i].v[1].v
                                       \o " - Broad: " \o IntToString(data.v[i].v[4].v)
                                       \o ", Exact: " \o IntToString(data.v[i].v[5].v)

\* C8: compareDomains with exactly 2 domains sends GET /v1/site_cmp/ with q,
\* q2 and comparison_type ("intersect" when unspecified) in the query string;
\* with more than 2 it sends POST /v1/site_mcmp/ whose body has the
\* CRLF-joined domain list in q and no comparison_type; count-only or not.
C8_CompareRouting ==
    (op = "compareDomains" /\ pc # "idle") =>
        LET c == requests[1]
            wanted == IF Has(args, "comparison_type")
                      THEN args.comparison_type ELSE "intersect"
        IN IF Len(args.domains) = 2
           THEN /\ c.method = "GET"
                /\ c.url = "http://api.bukvarix.com/v1/site_cmp/"
                /\ c.data = JUndefined
                /\ c.params.t = "object"
                /\ Lookup(c.params.v, "q") = JStr(args.domains[1])
                /\ Lookup(c.params.v, "q2") = JStr(args.domains[2])
                /\ Lookup(c.params.v, "comparison_type") = JStr(wanted)
           ELSE /\ c.method = "POST"
                /\ c.url = "http://api.bukvarix.com/v1/site_mcmp/"
                /\ c.params = JUndefined
                /\ c.data.t = "string"
                /\ FieldValue(FormDecode(c.data.v), "q") = Join(args.domains, "\r\n")
                /\ "comparison_type" \notin FieldNames(FormDecode(c.data.v))

\* a count-only comparison of more than 2 domains, a mode given, went out
C8_Witness ==
    /\ op = "compareDomains"
    /\ pc = "awaiting"
    /\ Len(args.domains) > 2
    /\ input.result_count
    /\ Has(args, "comparison_type")
    /\ args.comparison_type = "domain1_uniq"
    /\ Len(requests) = 1

\* sc has every element (of an array) or field (of an object) of parsed
Mirrors(sc, parsed) ==
    CASE parsed.t = "object" ->
            \A i \in 1..Len(parsed.v) : Lookup(sc.v, parsed.v[i][1]) = Lookup(parsed.v, parsed.v[i][1])
      [] parsed.t = "array" ->
            \A i \in 1..Len(parsed.v) : Lookup(sc.v, IntToString(i - 1)) = parsed.v[i]
      [] OTHER -> TRUE

\* C9: for a successful invocation that is not count-only the structured
\* payload is the normalized result (search, batch, domain lookup), or
\* mirrors it and adds the echoed domains and comparison_type (comparison),
\* truncated text or not.
C9_PayloadIsNormalizedResult ==
    (/\ pc = "done"
     /\ IsHandler
     /\ settled.ok
     /\ ~CountOnly
     /\ Len(outcomes) = 1
     /\ outcomes[1].hasStructured) =>
        LET parsed == parseResponse(settled.data, input.format)
            sc == outcomes[1].structuredContent
        IN IF op # "compareDomains" THEN sc = parsed
           ELSE /\ sc.t = "object"
                /\ Mirrors(sc, parsed)
                /\ Lookup(sc.v, "domains") = DomainsValue(input)
                /\ Lookup(sc.v, "comparison_type") = JStr(input.comparison_type)

\* C10: parseResponse with format json never throws: a structure comes back
\* unchanged, JSON text comes back decoded, any other text comes back as
\* {raw: <the text>}.
C10_JsonNeverFails ==
    (op = "parseResponse" /\ pc = "done" /\ args.format = "json") =>
        LET data == args.data
            out == outcomes[1]
        IN IF TypeOf(data) = "object" /\ data.t # "null" THEN out = data
           ELSE IF TypeOf(data) = "string" THEN
                IF \E p \in JsonTexts : p[1] = data.v
                THEN \A p \in JsonTexts : p[1] = data.v => out = p[2]
                ELSE out = JObj(<< <<"raw", JStr(data.v)>> >>)
           ELSE TRUE

\* text that is not JSON was normalized
C10_Witness ==
    /\ op = "parseResponse"
    /\ pc = "done"
    /\ args.format = "json"
    /\ args.data = JStr("{bad")
    /\ outcomes = << JObj(<< <<"raw", JStr("{bad")>> >>) >>

-----------------------------------------------------------------------------
(* C11..C20 *)

\* the text a count-only outcome opens with
CountHeading ==
    CASE op = "searchKeywords" -> "Total results found: "
      [] op = "getDomainKeywords" -> "Total keywords found for " \o input.domain \o ": "
      [] op = "compareDomains" -> "Total keywords found: "

\* C11: with result_count true the handler calls neither the normalizer nor
\* a formatter after the request settles; the outcome's total and text come
\* from integer-parsing the raw response body.
C11_CountOnlySkipsNormalizer ==
    (pc = "done" /\ CountOnly) =>
        /\ calls = <<>>
        /\ settled.ok =>
            /\ Len(outcomes) = 1
            /\ outcomes[1].hasStructured
            /\ Lookup(outcomes[1].structuredContent.v, "total") = CountOf(settled.data)
            /\ outcomes[1].text = CountHeading \o ToStr(CountOf(settled.data))

\* a count-only comparison settled with the text " 17\n"
C11_Witness ==
    /\ pc = "done"
    /\ op = "compareDomains"
    /\ CountOnly
    /\ settled.ok
    /\ settled.data = JStr(" 17\n")
    /\ calls = <<>>
    /\ outcomes[1].text = "Total keywords found: 17"

\* C12: searchKeywordsBatch sends one POST request to the multi-keyword
\* endpoint whose form body is, in order, api_key, q (the queries joined
\* with CRLF), q2 (the exclusions joined with CRLF, only when there is at
\* least one), num, format; it uses no query parameters.
C12_BatchBodyOrder ==
    (op = "searchKeywordsBatch" /\ pc # "idle") =>
        LET c == requests[1]
            q2 == IF Has(args, "exclusions") /\ Len(args.exclusions) > 0
                  THEN << <<"q2", Join(args.exclusions, "\r\n")>> >>
                  ELSE <<>>
            num == IF Has(args, "num") THEN args.num ELSE DEFAULT_NUM
            format == IF Has(args, "format") THEN args.format ELSE "json"
        IN /\ Len(requests) = 1
           /\ c.method = "POST"
           /\ c.url = "http://api.bukvarix.com/v1/mkeywords/"
           /\ c.params = JUndefined
           /\ c.data.t = "string"
           /\ FormDecode(c.data.v) =
                << <<"api_key", API_KEY>>, <<"q", Join(args.queries, "\r\n")>> >>
                \o q2
                \o << <<"num", IntToString(num)>>, <<"format", format>> >>

\* a batch of 2 queries and 1 exclusion went out
C12_Witness ==
    /\ op = "searchKeywordsBatch"
    /\ pc = "awaiting"
    /\ Len(args.queries) = 2
    /\ Has(args, "exclusions")
    /\ Len(args.exclusions) = 1
    /\ FieldValue(FormDecode(requests[1].data.v), "q2") = "kupit!"

\* the kinds of transport failure the classifier tells apart
FailureKinds ==
    {"400", "401", "402", "429", "500", "503", "status", "timeout", "unreachable",
     "unknown"}

\* the kind of a transport failure
FailureKind(error) ==
    IF error.kind = "axios" /\ error.hasResponse
    THEN IF error.status \in {400, 401, 402, 429, 500, 503}
         THEN IntToString(error.status) ELSE "status"
    ELSE IF error.kind = "axios" /\ error.code = "ECONNABORTED" THEN "timeout"
    ELSE IF error.kind = "axios" /\ error.code \in {"ENOTFOUND", "ECONNREFUSED"}
         THEN "unreachable"
    ELSE "unknown"

\* text follows the message template of kind
FollowsTemplate(text, kind) ==
    CASE kind = "400" -> StartsWith(text, 1, "Error: Invalid request. ")
      [] kind = "401" -> StartsWith(text, 1, "Error: Authentication failed. ")
      [] kind = "402" ->
            text = "Error: Limit exceeded. Free API limits: max 100 queries, "
                   \o "250 exclusions, 10 domains for comparison. "
                   \o "Try reducing the 'num' parameter or use filters."
      [] kind = "429" -> StartsWith(text, 1, "Error: Rate limit exceeded. ")
      [] kind = "500" -> StartsWith(text, 1, "Error: Internal server error. ")
      [] kind = "503" -> StartsWith(text, 1, "Error: Server maintenance in progress. ")
      [] kind = "status" -> StartsWith(text, 1, "Error: API request failed with status ")
      [] kind = "timeout" -> text = "Error: Request timed out. Please try again."
      [] kind = "unreachable" -> StartsWith(text, 1, "Error: Cannot connect to Bukvarix API. ")
      [] kind = "unknown" -> StartsWith(text, 1, "Error: Unexpected error occurred: ")

\* C13: handleApiError maps every transport failure to the message template
\* of its kind and to no other; status 402 gives the text stating the
\* free-tier ceilings whatever the operation.
C13_ClassifierTotal ==
    (pc = "done" /\ ~settled.ok) =>
        /\ Len(outcomes) = 1
        /\ outcomes[1].text = handleApiError(settled.error)
        /\ \A kind \in FailureKinds :
              FollowsTemplate(outcomes[1].text, kind) <=> kind = FailureKind(settled.error)

\* a domain lookup was answered with status 402
C13_Witness ==
    /\ pc = "done"
    /\ op = "getDomainKeywords"
    /\ ~settled.ok
    /\ settled.error.hasResponse
    /\ settled.error.status = 402
    /\ FollowsTemplate(outcomes[1].text, "402")

\* a positional record of a domain lookup (7 elements) or comparison (8)
IsDomainRecord(x) ==
    /\ x.t = "array"
    /\ Len(x.v) \in {7, 8}
    /\ x.v[1].t = "string"
    /\ \A k \in 2..Len(x.v) : x.v[k].t = "number"

\* C14: for a domain lookup or comparison with format json whose response is
\* an array of positional records, each enumerated line shows element[6] as
\* Position, element[4] as Broad and element[5] as Exact.
C14_DomainLinePositions ==
    (/\ pc = "done"
     /\ op \in {"getDomainKeywords", "compareDomains"}
     /\ settled.ok
     /\ ~CountOnly
     /\ input.format = "json") =>
        LET data == parseResponse(settled.data, "json")
        IN (/\ data.t = "array"
            /\ Len(data.v) > 0
            /\ \A i \in 1..Len(data.v) : IsDomainRecord(data.v[i])) =>
             /\ Len(outcomes) = 1
             /\ LET lines == Split(outcomes[1].text, "\n")
                IN /\ Len(lines) = 4 + Len(data.v)
                   /\ \A i \in 1..Len(data.v) :
                        lines[4 + i] = IntToString(i) \o ". " \o data.v[i].v[1].v
                                       \o " - Position: " \o IntToString(data.v[i].v[7].v)
                                       \o ", Broad: " \o IntToString(data.v[i].v[5].v)
                                       \o ", Exact: " \o IntToString(data.v[i].v[6].v)

\* C15: a comparison of three or more domains is always the common one: the
\* heading label of its display text is the common / intersection label,
\* whatever comparison_type the caller gave.
C15_ManyDomainsLabelCommon ==
    (/\ pc = "done"
     /\ op = "compareDomains"
     /\ settled.ok
     /\ ~CountOnly
     /\ Len(input.domains) >= 3
     /\ Len(outcomes) = 1
     /\ outcomes[1].hasStructured) =>
        LET data == parseResponse(settled.data, input.format)
            labelled == IF input.format \in {"json", "txt"} THEN data.t = "array"
                        ELSE IsTable(data)
            lines == Split(outcomes[1].text, "\n")
        IN labelled =>
              /\ Len(lines) >= 3
              /\ lines[1] = "# Domain Comparison: " \o Join(input.domains, " vs ")
                            \o (IF RegionOf(input) # "" THEN " (" \o input.region \o ")" ELSE "")
              /\ StartsWith(lines[3], 1, "Common keywords (")

\* the delimiter of a delimited format
DelimiterOf(format) == IF format = "csv" THEN ";" ELSE "\t"

\* a delimited text was normalized
ParsedDelimited ==
    /\ op = "parseResponse"
    /\ pc = "done"
    /\ args.format \in {"csv", "tsv"}
    /\ args.data.t = "string"

\* C16: for csv / tsv text parseResponse takes the first non-blank line as
\* headers and zips every later non-blank line against them by index: a row
\* has one entry per header, fields beyond the headers are dropped, missing
\* fields are "", and each value is trimmed and loses one leading and one
\* trailing double quote.
C16_RowsZipHeaders ==
    ParsedDelimited =>
        LET delimiter == DelimiterOf(args.format)
            lines == NonBlankLines(args.data.v)
            headers == IF Len(lines) > 0 THEN Split(lines[1], delimiter) ELSE <<>>
            out == outcomes[1]
        IN /\ out.t = "object"
           /\ Prop(out, "headers") = JArr([i \in 1..Len(headers) |-> JStr(headers[i])])
           /\ Prop(out, "rows").t = "array"
           /\ LET rows == Prop(out, "rows").v
              IN /\ Len(rows) = IF Len(lines) > 0 THEN Len(lines) - 1 ELSE 0
                 /\ \A k \in 1..Len(rows) :
                      LET values == Split(lines[k + 1], delimiter)
                      IN /\ rows[k].t = "object"
                         /\ Len(rows[k].v) = Len(headers)
                         /\ \A i \in 1..Len(headers) :
                              Lookup(rows[k].v, Trim(headers[i]))
                                = JStr(IF i <= Len(values)
                                       THEN StripQuotes(Trim(values[i])) ELSE "")

\* a Table written back as delimited text: the header line, then one line
\* per row holding the row's values in header order
Serialize(table, delimiter) ==
    LET headers == Prop(table, "headers").v
        rows == Prop(table, "rows").v
        line(row) == Join([i \in 1..Len(headers) |->
                              ToStr(Or(Lookup(row.v, Trim(headers[i].v)), JStr("")))],
                          delimiter)
    IN Join(<<Join([i \in 1..Len(headers) |-> headers[i].v], delimiter)>>
            \o [k \in 1..Len(rows) |-> line(rows[k])], "\n")

\* C17: normalizing delimited text is idempotent: writing the Table back
\* with the same delimiter and normalizing again gives the same headers and
\* the same row values.
C17_DelimitedIdempotent ==
    ParsedDelimited =>
        parseResponse(JStr(Serialize(outcomes[1], DelimiterOf(args.format))), args.format)
            = outcomes[1]

-----------------------------------------------------------------------------
(* Several invocations in flight at once: the host may call a tool while   *)
(* earlier calls are suspended at their await.  Every variable but API_KEY *)
(* and requests holds one value per invocation; requests is the order in   *)
(* which axios was called, each entry naming the invocation that made it.  *)

\* most invocations in flight
MaxInvocations == 2

\* the tool calls of the interleaved model: the tool and its validated params
ConcInputs ==
    {<<"searchKeywords", SearchKeywordsSchema([query |-> q])>> : q \in {"okna", "a b*"}}
    \cup {<<"compareDomains",
            CompareDomainsSchema([domains |-> <<"a.com", "b-c.ru", "d.org">>])>>}

\* what their requests settle with
ConcResults ==
    {Fulfilled(JArr(<<KeywordRecord>>)), Rejected(HttpError(402, JStr("Bad query")))}

\* the tool's handler up to its await
HandlerRequest(name, params) ==
    CASE name = "searchKeywords" -> searchKeywordsRequest(params)
      [] name = "searchKeywordsBatch" -> searchKeywordsBatchRequest(params)
      [] name = "getDomainKeywords" -> getDomainKeywordsRequest(params)
      [] name = "compareDomains" -> compareDomainsRequest(params)

\* the tool's handler after its await
HandlerResume(name, params, result) ==
    CASE name = "searchKeywords" -> searchKeywordsResume(params, result)
      [] name = "searchKeywordsBatch" -> searchKeywordsBatchResume(params, result)
      [] name = "getDomainKeywords" -> getDomainKeywordsResume(params, result)
      [] name = "compareDomains" -> compareDomainsResume(params, result)

\* params kept in a variable of the handler's module: a resumed invocation
\* reads what the latest call of the same tool stored there
SharedParams(i) ==
    LET latest == CHOOSE k \in 1..Len(requests) :
                    /\ op[requests[k].by] = op[i]
                    /\ \A j \in (k + 1)..Len(requests) : op[requests[j].by] # op[i]
    IN input[requests[latest].by]

\* params of invocation i when it resumes: the handler's own parameter
OwnParams(i) == input[i]

InitConc ==
    /\ \E env \in EnvKeys : API_KEY = IF env # "" THEN env ELSE "free"
    /\ pc = [i \in 1..MaxInvocations |-> "idle"]
    /\ op = [i \in 1..MaxInvocations |-> "none"]
    /\ args = [i \in 1..MaxInvocations |-> <<>>]
    /\ input = [i \in 1..MaxInvocations |-> <<>>]
    /\ requests = <<>>
    /\ calls = [i \in 1..MaxInvocations |-> <<>>]
    /\ settled = [i \in 1..MaxInvocations |-> NotSettled]
    /\ outcomes = [i \in 1..MaxInvocations |-> <<>>]
    /\ escaped = [i \in 1..MaxInvocations |-> FALSE]

\* the host calls a tool: its handler runs up to the await
InvokeTool ==
    \E i \in 1..MaxInvocations, c \in ConcInputs :
        /\ pc[i] = "idle"
        /\ pc' = [pc EXCEPT ![i] = "awaiting"]
        /\ op' = [op EXCEPT ![i] = c[1]]
        /\ args' = [args EXCEPT ![i] = c[2]]
        /\ input' = [input EXCEPT ![i] = c[2]]
        /\ requests' = Append(requests, [by |-> i, config |-> HandlerRequest(c[1], c[2])])
        /\ UNCHANGED <<API_KEY, calls, settled, outcomes, escaped>>

\* invocation i resumes with result r and runs to its end
ResumeAt(i, r, done) ==
    /\ pc[i] = "awaiting"
    /\ calls' = [calls EXCEPT ![i] = done.calls]
    /\ requests' = requests \o [k \in 1..Len(done.requests) |->
                                  [by |-> i, config |-> done.requests[k]]]
    /\ outcomes' = [outcomes EXCEPT
                      ![i] = IF done.thrown THEN @ ELSE Append(@, done.value)]
    /\ escaped' = [escaped EXCEPT ![i] = done.thrown]
    /\ pc' = [pc EXCEPT ![i] = "done"]
    /\ settled' = [settled EXCEPT ![i] = r]
    /\ UNCHANGED <<API_KEY, op, args, input>>

\* a request settles: the handler that awaits it runs to its end
SettleRequest ==
    \E i \in 1..MaxInvocations, r \in ConcResults :
        ResumeAt(i, r, HandlerResume(op[i], OwnParams(i), r))

NextConc == InvokeTool \/ SettleRequest

SpecConc == InitConc /\ [][NextConc]_vars

\* the requests invocation i made, in order
RequestsBy(i) ==
    LET made == SelectSeq(requests, LAMBDA e : e.by = i)
    IN [k \in 1..Len(made) |-> made[k].config]

\* C18: invocations share no mutable state: however the request and
\* response steps of concurrent invocations interleave, each invocation's
\* request and outcome are what its own parameters and its own transport
\* result give when it runs alone.
C18_NoSharedState ==
    \A i \in 1..MaxInvocations :
        /\ pc[i] = "idle" => RequestsBy(i) = <<>> /\ outcomes[i] = <<>>
        /\ pc[i] # "idle" => RequestsBy(i) = <<HandlerRequest(op[i], args[i])>>
        /\ pc[i] = "awaiting" => outcomes[i] = <<>>
        /\ pc[i] = "done" =>
              LET alone == HandlerResume(op[i], args[i], settled[i])
              IN /\ ~alone.thrown
                 /\ ~escaped[i]
                 /\ outcomes[i] = <<alone.value>>
                 /\ calls[i] = alone.calls

\* a search was called while another search with a different query was
\* awaiting its response, and ran to its end before the other resumed
C18_Witness ==
    /\ pc[1] = "done"
    /\ pc[2] = "awaiting"
    /\ op[1] = "searchKeywords"
    /\ op[2] = "searchKeywords"
    /\ input[1].query # input[2].query
    /\ Len(requests) = 2
    /\ requests[1].by = 2
    /\ settled[1].ok
    /\ Len(outcomes[1]) = 1

\* C19: every entry of a Table's headers is a key of every row, so the
\* markdown table shows in column h of each row the value the normalizer
\* stored for that header.
C19_HeadersAreRowKeys ==
    ParsedDelimited =>
        LET headers == Prop(outcomes[1], "headers").v
            rows == Prop(outcomes[1], "rows").v
            shown == Split(MarkdownTable(outcomes[1]), "\n")
        IN \A k \in 1..Len(rows) :
              /\ \A i \in 1..Len(headers) : HasKey(rows[k].v, headers[i].v)
              /\ shown[2 + k] =
                    "| " \o Join([i \in 1..Len(headers) |->
                                    Lookup(rows[k].v, Trim(headers[i].v)).v], " | ") \o " |"

\* C20: in count-only mode with a successful response, the total of the
\* display text and of the structured payload is an integer whatever the
\* response body; it is never NaN.
C20_CountIsInteger ==
    (pc = "done" /\ CountOnly /\ settled.ok) =>
        /\ Len(outcomes) = 1
        /\ outcomes[1].hasStructured
        /\ LET total == Lookup(outcomes[1].structuredContent.v, "total")
           IN /\ total.t = "number"
              /\ total.v \in Int
              /\ outcomes[1].text = CountHeading \o IntToString(total.v)

====
